---------------------------- MODULE Spec2Model ----------------------------
(***************************************************************************)
(* A model of eCollector.Collect (collector/collector.go): one scrape      *)
(* issues the primary fetch GetThermostats, emits the fetch-latency        *)
(* sample, walks thermostats / hold events / remote sensors / sensor       *)
(* capabilities, then issues the secondary fetch GetThermostatSummary and  *)
(* walks the equipment summary.                                            *)
(*                                                                         *)
(* Strings the code only compares or copies (identifiers, names, modes,    *)
(* types) are TLA+ strings.  Capability values, which the code parses,     *)
(* are sequences of one-character strings.  float64 values are modelled    *)
(* as exact decimal fractions [num, den].                                  *)
(***************************************************************************)
EXTENDS Integers, Sequences, FiniteSets, TLC

(***************************************************************************)
(* Bounds of the remote account's state.                                   *)
(***************************************************************************)
MaxThermostats == 2
MaxEvents == 2
MaxSensors == 2
MaxCapabilities == 2
MaxSummaries == 2

SeqsUpTo(S, n) == UNION {[1..k -> S] : k \in 0..n}

(***************************************************************************)
(* float64 arithmetic, as exact fractions.                                 *)
(***************************************************************************)
Float(n, d) == [num |-> n, den |-> d]

\* float64(x) of an int x.
float64(x) == Float(x, 1)

\* v / 10
Div10(v) == Float(v.num, v.den * 10)

(***************************************************************************)
(* strconv.ParseFloat(s, 64) on decimal literals: an optional sign, digits *)
(* with at most one decimal point, and at least one digit.  Any other      *)
(* string is a syntax error.  (Exponents, hex floats, "inf" and "nan" are  *)
(* outside the alphabet of the values enumerated below.)                   *)
(***************************************************************************)
DigitChars == <<"0", "1", "2", "3", "4", "5", "6", "7", "8", "9">>

IsDigit(c) == \E d \in 1..10 : DigitChars[d] = c

DigitVal(c) == (CHOOSE d \in 1..10 : DigitChars[d] = c) - 1

RECURSIVE DigitsValue(_)
DigitsValue(s) ==
    IF s = <<>> THEN 0
    ELSE DigitsValue(SubSeq(s, 1, Len(s) - 1)) * 10 + DigitVal(s[Len(s)])

RECURSIVE Pow10(_)
Pow10(n) == IF n = 0 THEN 1 ELSE 10 * Pow10(n - 1)

ParseFloat(s) ==
    LET signed == s # <<>> /\ s[1] \in {"+", "-"}
        body   == IF signed THEN Tail(s) ELSE s
        dots   == {p \in 1..Len(body) : body[p] = "."}
        mant   == SelectSeq(body, LAMBDA c : c # ".")
        frac   == IF dots = {} THEN 0
                  ELSE Len(body) - (CHOOSE p \in dots : TRUE)
        wellFormed == /\ Cardinality(dots) <= 1
                      /\ mant # <<>>
                      /\ \A p \in 1..Len(mant) : IsDigit(mant[p])
        sign   == IF signed /\ s[1] = "-" THEN -1 ELSE 1
    IN  IF wellFormed
        THEN [err |-> FALSE, v |-> Float(sign * DigitsValue(mant), Pow10(frac))]
        ELSE [err |-> TRUE, v |-> Float(0, 1)]

(***************************************************************************)
(* The metric descriptors built by NewEcobeeCollector (the prefix is left  *)
(* out) and the samples sent on ch.                                        *)
(***************************************************************************)
fetchTime == "fetch_time"
actualTemperature == "actual_temperature"
targetTemperatureMax == "target_temperature_max"
targetTemperatureMin == "target_temperature_min"
currentHvacMode == "current_hvac_mode"
holdTempMetric == "hold_temperature"
hvacInOperation == "hvac_in_operation"
temperature == "temperature"
humidity == "humidity"
occupancy == "occupancy"
inUse == "in_use"

MustNewConstMetric(desc, value, labels) ==
    [desc |-> desc, value |-> value, labels |-> labels]

(***************************************************************************)
(* Log entries written through logrus.                                     *)
(***************************************************************************)
LogError(msg) == [level |-> "error", msg |-> msg]
LogInfo(msg) == [level |-> "info", msg |-> msg]

(***************************************************************************)
(* The remote account: what the two fetches return when they succeed.      *)
(***************************************************************************)
ThermostatIds == <<"T1", "T2", "T3", "T4">>
ThermostatNames == <<"Hall", "Attic", "Cellar", "Garage">>
SensorIds == <<"rs:1", "rs:2", "rs:3", "rs:4">>
SensorNames == <<"Desk", "Bed", "Sofa", "Door">>

S_true == <<"t", "r", "u", "e">>
S_false == <<"f", "a", "l", "s", "e">>
S_number == <<"2", "1", ".", "5">>
S_integer == <<"4", "5">>
S_garbage == <<"a", "b", "c">>

HvacModes == {"off", "heat", "cool", "auto"}

Events ==
    [Type : {"hold", "vacation"}, Running : BOOLEAN,
     IsCoolOff : BOOLEAN, IsHeatOff : BOOLEAN,
     CoolHoldTemp : {730}, HeatHoldTemp : {690}]

Capabilities ==
    [Type : {"temperature", "humidity", "occupancy", "co2"},
     Value : {S_number, S_true, S_false}]

Thermostat(pos, connected, mode, events, sensors) ==
    [Identifier |-> ThermostatIds[pos], Name |-> ThermostatNames[pos],
     Runtime |-> [Connected |-> connected, ActualTemperature |-> 705,
                  DesiredCool |-> 720, DesiredHeat |-> 680],
     Settings |-> [HvacMode |-> mode],
     Events |-> events, RemoteSensors |-> sensors]

RemoteSensor(pos, used, caps) ==
    [ID |-> SensorIds[pos], Name |-> SensorNames[pos],
     Type |-> "ecobee3_remote_sensor", InUse |-> used, Capability |-> caps]

Cap(type, value) == [Type |-> type, Value |-> value]

HoldEvent == [Type |-> "hold", Running |-> TRUE, IsCoolOff |-> FALSE,
              IsHeatOff |-> FALSE, CoolHoldTemp |-> 730, HeatHoldTemp |-> 690]

\* Capability lists used where several sensors or thermostats are listed.
CapabilityShapes ==
    { <<Cap("temperature", S_number), Cap("occupancy", S_true)>>,
      <<Cap("humidity", S_garbage), Cap("temperature", S_integer)>>,
      <<Cap("occupancy", S_garbage), Cap("co2", S_integer)>> }

\* One connected thermostat, every mode, every list of events.
HoldFamily ==
    { <<Thermostat(1, TRUE, mode, ev, <<>>)>> :
        mode \in HvacModes, ev \in SeqsUpTo(Events, MaxEvents) }

\* One thermostat with one sensor, every list of capabilities.
CapabilityFamily ==
    { <<Thermostat(1, c, "auto", <<>>, <<RemoteSensor(1, u, caps)>>)>> :
        c \in BOOLEAN, u \in BOOLEAN,
        caps \in SeqsUpTo(Capabilities, MaxCapabilities) }

\* One thermostat with several sensors.
SensorFamily ==
    { <<Thermostat(1, c, "heat", <<HoldEvent>>,
                   [q \in DOMAIN sh |-> RemoteSensor(q, q = 1, sh[q])])>> :
        c \in BOOLEAN, sh \in SeqsUpTo(CapabilityShapes, MaxSensors) }

\* Several thermostats.
ThermostatShapes ==
    [Connected : BOOLEAN, HvacMode : {"auto", "off"}, Caps : CapabilityShapes]

ThermostatFamily ==
    { [p \in DOMAIN sh |->
          Thermostat(p, sh[p].Connected, sh[p].HvacMode, <<HoldEvent>>,
                     <<RemoteSensor(p, TRUE, sh[p].Caps)>>)] :
        sh \in SeqsUpTo(ThermostatShapes, MaxThermostats) }

Summary(pos, connected, cool, heat, fan) ==
    [Identifier |-> ThermostatIds[pos], Name |-> ThermostatNames[pos],
     Connected |-> connected, HeatPump |-> TRUE,
     CompCool1 |-> cool, AuxHeat1 |-> heat, Fan |-> fan]

SummaryShapes ==
    [Connected : BOOLEAN, CompCool1 : BOOLEAN, AuxHeat1 : BOOLEAN, Fan : BOOLEAN]

SummaryFamily ==
    { [p \in DOMAIN sh |->
          Summary(p, sh[p].Connected, sh[p].CompCool1, sh[p].AuxHeat1, sh[p].Fan)] :
        sh \in SeqsUpTo(SummaryShapes, MaxSummaries) }

PlainThermostats ==
    <<Thermostat(1, TRUE, "auto", <<HoldEvent>>,
                 <<RemoteSensor(1, TRUE, <<Cap("temperature", S_number)>>)>>)>>

PlainSummary == <<Summary(1, TRUE, TRUE, FALSE, TRUE)>>

Accounts ==
    ((HoldFamily \cup CapabilityFamily \cup SensorFamily \cup ThermostatFamily)
        \X {PlainSummary})
    \cup ({PlainThermostats} \X SummaryFamily)

\* elapsed.Seconds()
ElapsedSeconds == {Float(0, 1), Float(25, 100)}

(***************************************************************************)
(* State.                                                                  *)
(***************************************************************************)
VARIABLES
    thermostats,    \* remote account: the registered thermostats
    equipment,      \* remote account: the equipment summary
    pc,             \* position in Collect
    tt,             \* result of GetThermostats
    statSummary,    \* result of GetThermostatSummary
    err,            \* the err variable of Collect (TRUE: non-nil)
    elapsed,        \* duration of the primary fetch
    i, j, k, m, n,  \* loop positions: thermostat, event, sensor, capability, summary
    ch,             \* samples sent on ch during this scrape
    logs,           \* log entries written during this scrape
    calls           \* the client calls of this scrape: which, whether it
                    \* failed, and how many samples had been sent by then

vars == <<thermostats, equipment, pc, tt, statSummary, err, elapsed,
          i, j, k, m, n, ch, logs, calls>>

env == <<thermostats, equipment>>

Idle ==
    /\ pc = "idle"
    /\ tt = <<>>
    /\ statSummary = <<>>
    /\ err = FALSE
    /\ elapsed = Float(0, 1)
    /\ i = 0 /\ j = 0 /\ k = 0 /\ m = 0 /\ n = 0
    /\ ch = <<>>
    /\ logs = <<>>
    /\ calls = <<>>

Init ==
    /\ \E a \in Accounts : thermostats = a[1] /\ equipment = a[2]
    /\ Idle

(***************************************************************************)
(* Collect, lines 129-143: the primary fetch, the latency sample and the   *)
(* error return.                                                           *)
(***************************************************************************)
Call(op, failed, sent) == [op |-> op, failed |-> failed, sent |-> sent]

tFields(t) == <<t.Identifier, t.Name>>

sFields(t, s) == tFields(t) \o <<s.ID, s.Name, s.Type>>

\* c.client.GetThermostats(...): the registered thermostats, or an error.
GetThermostats ==
    /\ pc = "idle"
    /\ \E failed \in BOOLEAN, d \in ElapsedSeconds :
          /\ tt' = IF failed THEN <<>> ELSE thermostats
          /\ err' = failed
          /\ elapsed' = d
          /\ calls' = Append(calls, Call("GetThermostats", failed, Len(ch)))
    /\ pc' = "fetchTime"
    /\ UNCHANGED <<env, statSummary, i, j, k, m, n, ch, logs>>

\* Variant of EmitFetchTime: the latency sample is sent only when the fetch
\* succeeded (the send placed after the error return).
EmitFetchTime_OnlyOnSuccess ==
    /\ pc = "fetchTime"
    /\ ch' = IF err THEN ch
             ELSE Append(ch, MustNewConstMetric(fetchTime, elapsed, <<>>))
    /\ pc' = "checkErr"
    /\ UNCHANGED <<env, tt, statSummary, err, elapsed, i, j, k, m, n, logs, calls>>

\* ch <- MustNewConstMetric(c.fetchTime, GaugeValue, elapsed.Seconds())
EmitFetchTime ==
    /\ pc = "fetchTime"
    /\ ch' = Append(ch, MustNewConstMetric(fetchTime, elapsed, <<>>))
    /\ pc' = "checkErr"
    /\ UNCHANGED <<env, tt, statSummary, err, elapsed, i, j, k, m, n, logs, calls>>

\* Variant of PrimaryFailed: the error is logged but Collect does not return.
PrimaryFailed_Continues ==
    /\ pc = "checkErr"
    /\ err
    /\ logs' = Append(logs, LogError("GetThermostats"))
    /\ i' = 1
    /\ pc' = "thermostat"
    /\ UNCHANGED <<env, tt, statSummary, err, elapsed, j, k, m, n, ch, calls>>

\* if err != nil { log.Error(err); return }
PrimaryFailed ==
    /\ pc = "checkErr"
    /\ err
    /\ logs' = Append(logs, LogError("GetThermostats"))
    /\ pc' = "done"
    /\ UNCHANGED <<env, tt, statSummary, err, elapsed, i, j, k, m, n, ch, calls>>

\* err == nil: enter `for _, t := range tt`.
PrimaryOk ==
    /\ pc = "checkErr"
    /\ ~err
    /\ i' = 1
    /\ pc' = "thermostat"
    /\ UNCHANGED <<env, tt, statSummary, err, elapsed, j, k, m, n, ch, logs, calls>>

(***************************************************************************)
(* Lines 144-175: the runtime samples and the hold events of a thermostat. *)
(***************************************************************************)
\* Variant of RuntimeSamples: DesiredCool and DesiredHeat exchanged.
RuntimeSamples_MinMaxSwapped(t) ==
    << MustNewConstMetric(actualTemperature,
                          Div10(float64(t.Runtime.ActualTemperature)), tFields(t)),
       MustNewConstMetric(targetTemperatureMax,
                          Div10(float64(t.Runtime.DesiredHeat)), tFields(t)),
       MustNewConstMetric(targetTemperatureMin,
                          Div10(float64(t.Runtime.DesiredCool)), tFields(t)),
       MustNewConstMetric(currentHvacMode, float64(0),
                          <<t.Identifier, t.Name, t.Settings.HvacMode>>) >>

RuntimeSamples(t) ==
    << MustNewConstMetric(actualTemperature,
                          Div10(float64(t.Runtime.ActualTemperature)), tFields(t)),
       MustNewConstMetric(targetTemperatureMax,
                          Div10(float64(t.Runtime.DesiredCool)), tFields(t)),
       MustNewConstMetric(targetTemperatureMin,
                          Div10(float64(t.Runtime.DesiredHeat)), tFields(t)),
       MustNewConstMetric(currentHvacMode, float64(0),
                          <<t.Identifier, t.Name, t.Settings.HvacMode>>) >>

\* Variant of HoldSamples: the setpoints are not gated by the hvac mode.
HoldSamples_NoModeGate(t, event) ==
    IF event.Running /\ event.Type = "hold"
    THEN (IF ~event.IsCoolOff
          THEN <<MustNewConstMetric(holdTempMetric,
                                    Div10(float64(event.CoolHoldTemp)),
                                    <<t.Identifier, t.Name, "cool">>)>>
          ELSE <<>>)
         \o
         (IF ~event.IsHeatOff
          THEN <<MustNewConstMetric(holdTempMetric,
                                    Div10(float64(event.HeatHoldTemp)),
                                    <<t.Identifier, t.Name, "heat">>)>>
          ELSE <<>>)
    ELSE <<>>

\* The body of `for _, event := range t.Events`.
HoldSamples(t, event) ==
    IF event.Running /\ event.Type = "hold"
    THEN (IF ~event.IsCoolOff /\ t.Settings.HvacMode # "heat"
          THEN <<MustNewConstMetric(holdTempMetric,
                                    Div10(float64(event.CoolHoldTemp)),
                                    <<t.Identifier, t.Name, "cool">>)>>
          ELSE <<>>)
         \o
         (IF ~event.IsHeatOff /\ t.Settings.HvacMode # "cool"
          THEN <<MustNewConstMetric(holdTempMetric,
                                    Div10(float64(event.HeatHoldTemp)),
                                    <<t.Identifier, t.Name, "heat">>)>>
          ELSE <<>>)
    ELSE <<>>

\* Variant of ThermostatRuntime: t.Runtime.Connected is not tested.
ThermostatRuntime_IgnoresConnected ==
    /\ pc = "thermostat"
    /\ i <= Len(tt)
    /\ LET t == tt[i] IN
          /\ ch' = ch \o RuntimeSamples(t)
          /\ IF t.Settings.HvacMode # "off"
             THEN pc' = "event" /\ j' = 1 /\ k' = k
             ELSE pc' = "sensor" /\ k' = 1 /\ j' = j
    /\ UNCHANGED <<env, tt, statSummary, err, elapsed, i, m, n, logs, calls>>

\* One iteration of `for _, t := range tt` up to its event loop.
ThermostatRuntime ==
    /\ pc = "thermostat"
    /\ i <= Len(tt)
    /\ LET t == tt[i] IN
          IF t.Runtime.Connected
          THEN /\ ch' = ch \o RuntimeSamples(t)
               /\ IF t.Settings.HvacMode # "off"
                  THEN pc' = "event" /\ j' = 1 /\ k' = k
                  ELSE pc' = "sensor" /\ k' = 1 /\ j' = j
          ELSE /\ ch' = ch
               /\ pc' = "sensor" /\ k' = 1 /\ j' = j
    /\ UNCHANGED <<env, tt, statSummary, err, elapsed, i, m, n, logs, calls>>

HoldEventStep ==
    /\ pc = "event"
    /\ j <= Len(tt[i].Events)
    /\ ch' = ch \o HoldSamples(tt[i], tt[i].Events[j])
    /\ j' = j + 1
    /\ UNCHANGED <<env, pc, tt, statSummary, err, elapsed, i, k, m, n, logs, calls>>

EventsDone ==
    /\ pc = "event"
    /\ j > Len(tt[i].Events)
    /\ pc' = "sensor"
    /\ k' = 1
    /\ UNCHANGED <<env, tt, statSummary, err, elapsed, i, j, m, n, ch, logs, calls>>

(***************************************************************************)
(* Lines 176-221: the remote sensors of a thermostat and their             *)
(* capabilities.                                                           *)
(***************************************************************************)
InUseSample(t, s) ==
    MustNewConstMetric(inUse, IF s.InUse THEN float64(1) ELSE float64(0),
                       sFields(t, s))

\* Variant of CapabilityOutcome: an occupancy value other than "true" counts
\* as "false".
CapabilityOutcome_NotTrueIsFalse(t, s, sc) ==
    CASE sc.Type = "temperature" ->
            LET r == ParseFloat(sc.Value) IN
            IF ~r.err
            THEN [sent |-> <<MustNewConstMetric(temperature, Div10(r.v),
                                                sFields(t, s))>>,
                  logged |-> <<>>]
            ELSE [sent |-> <<>>, logged |-> <<LogError("ParseFloat")>>]
      [] sc.Type = "humidity" ->
            LET r == ParseFloat(sc.Value) IN
            IF ~r.err
            THEN [sent |-> <<MustNewConstMetric(humidity, r.v, sFields(t, s))>>,
                  logged |-> <<>>]
            ELSE [sent |-> <<>>, logged |-> <<LogError("ParseFloat")>>]
      [] sc.Type = "occupancy" ->
            [sent |-> <<MustNewConstMetric(occupancy,
                                           IF sc.Value = S_true THEN float64(1)
                                           ELSE float64(0),
                                           sFields(t, s))>>,
             logged |-> <<>>]
      [] OTHER ->
            [sent |-> <<>>, logged |-> <<LogInfo("ignoring sensor capability")>>]

\* The body of `for _, sc := range s.Capability`: what is sent and logged.
CapabilityOutcome(t, s, sc) ==
    CASE sc.Type = "temperature" ->
            LET r == ParseFloat(sc.Value) IN
            IF ~r.err
            THEN [sent |-> <<MustNewConstMetric(temperature, Div10(r.v),
                                                sFields(t, s))>>,
                  logged |-> <<>>]
            ELSE [sent |-> <<>>, logged |-> <<LogError("ParseFloat")>>]
      [] sc.Type = "humidity" ->
            LET r == ParseFloat(sc.Value) IN
            IF ~r.err
            THEN [sent |-> <<MustNewConstMetric(humidity, r.v, sFields(t, s))>>,
                  logged |-> <<>>]
            ELSE [sent |-> <<>>, logged |-> <<LogError("ParseFloat")>>]
      [] sc.Type = "occupancy" ->
            CASE sc.Value = S_true ->
                    [sent |-> <<MustNewConstMetric(occupancy, float64(1),
                                                   sFields(t, s))>>,
                     logged |-> <<>>]
              [] sc.Value = S_false ->
                    [sent |-> <<MustNewConstMetric(occupancy, float64(0),
                                                   sFields(t, s))>>,
                     logged |-> <<>>]
              [] OTHER ->
                    [sent |-> <<>>,
                     logged |-> <<LogError("unknown sensor occupancy value")>>]
      [] OTHER ->
            [sent |-> <<>>, logged |-> <<LogInfo("ignoring sensor capability")>>]

RemoteSensorStep ==
    /\ pc = "sensor"
    /\ k <= Len(tt[i].RemoteSensors)
    /\ ch' = Append(ch, InUseSample(tt[i], tt[i].RemoteSensors[k]))
    /\ pc' = "capability"
    /\ m' = 1
    /\ UNCHANGED <<env, tt, statSummary, err, elapsed, i, j, k, n, logs, calls>>

\* Variant of CapabilityStep: a parse error leaves the capability loop.
CapabilityStep_BreaksOnParseError ==
    /\ pc = "capability"
    /\ m <= Len(tt[i].RemoteSensors[k].Capability)
    /\ LET s == tt[i].RemoteSensors[k]
           o == CapabilityOutcome(tt[i], s, s.Capability[m])
       IN  /\ ch' = ch \o o.sent
           /\ logs' = logs \o o.logged
           /\ m' = IF o.logged = <<LogError("ParseFloat")>>
                   THEN Len(s.Capability) + 1
                   ELSE m + 1
    /\ UNCHANGED <<env, pc, tt, statSummary, err, elapsed, i, j, k, n, calls>>

CapabilityStep ==
    /\ pc = "capability"
    /\ m <= Len(tt[i].RemoteSensors[k].Capability)
    /\ LET s == tt[i].RemoteSensors[k]
           o == CapabilityOutcome(tt[i], s, s.Capability[m])
       IN  /\ ch' = ch \o o.sent
           /\ logs' = logs \o o.logged
    /\ m' = m + 1
    /\ UNCHANGED <<env, pc, tt, statSummary, err, elapsed, i, j, k, n, calls>>

CapabilitiesDone ==
    /\ pc = "capability"
    /\ m > Len(tt[i].RemoteSensors[k].Capability)
    /\ pc' = "sensor"
    /\ k' = k + 1
    /\ UNCHANGED <<env, tt, statSummary, err, elapsed, i, j, m, n, ch, logs, calls>>

SensorsDone ==
    /\ pc = "sensor"
    /\ k > Len(tt[i].RemoteSensors)
    /\ pc' = "thermostat"
    /\ i' = i + 1
    /\ UNCHANGED <<env, tt, statSummary, err, elapsed, j, k, m, n, ch, logs, calls>>

(***************************************************************************)
(* Lines 222-251: the secondary fetch and the equipment summary.           *)
(***************************************************************************)
\* c.client.GetThermostatSummary(...), reached when the thermostat loop ends.
GetThermostatSummary ==
    /\ pc = "thermostat"
    /\ i > Len(tt)
    /\ \E failed \in BOOLEAN :
          /\ statSummary' = IF failed THEN <<>> ELSE equipment
          /\ err' = failed
          /\ calls' = Append(calls, Call("GetThermostatSummary", failed, Len(ch)))
    /\ pc' = "checkSummaryErr"
    /\ UNCHANGED <<env, tt, elapsed, i, j, k, m, n, ch, logs>>

\* Variant of SummaryFailed: the samples sent so far are withdrawn, the
\* latency sample excepted.
SummaryFailed_DropsSamples ==
    /\ pc = "checkSummaryErr"
    /\ err
    /\ logs' = Append(logs, LogError("GetThermostatSummary"))
    /\ ch' = SubSeq(ch, 1, 1)
    /\ pc' = "done"
    /\ UNCHANGED <<env, tt, statSummary, err, elapsed, i, j, k, m, n, calls>>

\* Variant of SummaryFailed: the fetch is issued again (twice at most).
SummaryFailed_Retries ==
    /\ pc = "checkSummaryErr"
    /\ err
    /\ logs' = Append(logs, LogError("GetThermostatSummary"))
    /\ pc' = IF Len(calls) < 3 THEN "thermostat" ELSE "done"
    /\ UNCHANGED <<env, tt, statSummary, err, elapsed, i, j, k, m, n, ch, calls>>

\* if err != nil { log.Error(err); return }
SummaryFailed ==
    /\ pc = "checkSummaryErr"
    /\ err
    /\ logs' = Append(logs, LogError("GetThermostatSummary"))
    /\ pc' = "done"
    /\ UNCHANGED <<env, tt, statSummary, err, elapsed, i, j, k, m, n, ch, calls>>

SummaryOk ==
    /\ pc = "checkSummaryErr"
    /\ ~err
    /\ n' = 1
    /\ pc' = "equipment"
    /\ UNCHANGED <<env, tt, statSummary, err, elapsed, i, j, k, m, ch, logs, calls>>

\* Variant of sAttr: HeatPump is tracked as well.
sAttr_WithHeatPump == <<"HeatPump", "CompCool1", "AuxHeat1", "Fan">>

sAttr == <<"CompCool1", "AuxHeat1", "Fan">>

\* The body of `for _, s := range statSummary`; s[a] is FieldByName(a).
EquipmentSamples(s) ==
    IF s.Connected
    THEN [a \in 1..Len(sAttr) |->
            MustNewConstMetric(hvacInOperation,
                               IF s[sAttr[a]] THEN float64(1) ELSE float64(0),
                               <<s.Identifier, s.Name, sAttr[a]>>)]
    ELSE <<>>

EquipmentStep ==
    /\ pc = "equipment"
    /\ n <= Len(statSummary)
    /\ ch' = ch \o EquipmentSamples(statSummary[n])
    /\ n' = n + 1
    /\ UNCHANGED <<env, pc, tt, statSummary, err, elapsed, i, j, k, m, logs, calls>>

EquipmentDone ==
    /\ pc = "equipment"
    /\ n > Len(statSummary)
    /\ pc' = "done"
    /\ UNCHANGED <<env, tt, statSummary, err, elapsed, i, j, k, m, n, ch, logs, calls>>

\* Collect returns: its locals are gone and the next scrape gets a fresh ch.
Return ==
    /\ pc = "done"
    /\ pc' = "idle"
    /\ tt' = <<>>
    /\ statSummary' = <<>>
    /\ err' = FALSE
    /\ elapsed' = Float(0, 1)
    /\ i' = 0 /\ j' = 0 /\ k' = 0 /\ m' = 0 /\ n' = 0
    /\ ch' = <<>>
    /\ logs' = <<>>
    /\ calls' = <<>>
    /\ UNCHANGED env

Next ==
    \/ GetThermostats
    \/ EmitFetchTime
    \/ PrimaryFailed
    \/ PrimaryOk
    \/ ThermostatRuntime
    \/ HoldEventStep
    \/ EventsDone
    \/ RemoteSensorStep
    \/ CapabilityStep
    \/ CapabilitiesDone
    \/ SensorsDone
    \/ GetThermostatSummary
    \/ SummaryFailed
    \/ SummaryOk
    \/ EquipmentStep
    \/ EquipmentDone
    \/ Return

Spec == Init /\ [][Next]_vars

(***************************************************************************)
(* Vocabulary of the properties: the outcome of the two fetches of the     *)
(* current scrape, selections of ch and of the log, and the samples a      *)
(* fetch result is expected to yield.                                      *)
(***************************************************************************)
PrimaryErr == calls # <<>> /\ calls[1].failed

PrimarySucceeded == calls # <<>> /\ ~calls[1].failed

SecondaryErr == Len(calls) = 2 /\ calls[2].failed

BothSucceeded == Len(calls) = 2 /\ ~calls[1].failed /\ ~calls[2].failed

RuntimeDescs ==
    {"actual_temperature", "target_temperature_max", "target_temperature_min",
     "current_hvac_mode", "hold_temperature"}

SensorDescs == {"in_use", "temperature", "humidity", "occupancy"}

\* The samples of ch with a descriptor of D.
Of(D) == SelectSeq(ch, LAMBDA x : x.desc \in D)

\* The samples of ch with a descriptor of D and thermostat identifier id.
OfThermostat(D, id) == SelectSeq(ch, LAMBDA x : x.desc \in D /\ x.labels[1] = id)

CountLogs(level, msg) ==
    Cardinality({p \in DOMAIN logs : logs[p] = [level |-> level, msg |-> msg]})

RECURSIVE Flatten(_)
Flatten(ss) == IF ss = <<>> THEN <<>> ELSE Head(ss) \o Flatten(Tail(ss))

Sample(desc, num, den, labels) ==
    [desc |-> desc, value |-> [num |-> num, den |-> den], labels |-> labels]

SameSample(a, b) ==
    /\ a.desc = b.desc
    /\ a.labels = b.labels
    /\ a.value.num * b.value.den = b.value.num * a.value.den

SameSamples(x, y) ==
    Len(x) = Len(y) /\ \A p \in DOMAIN x : SameSample(x[p], y[p])

\* The capability values of the account that are numbers: "21.5" and "45".
Numeric(v) == v = <<"2", "1", ".", "5">> \/ v = <<"4", "5">>

NumeratorOf(v) == IF v = <<"2", "1", ".", "5">> THEN 215 ELSE 45

DenominatorOf(v) == IF v = <<"2", "1", ".", "5">> THEN 10 ELSE 1

Malformed(c) == c.Type \in {"temperature", "humidity"} /\ ~Numeric(c.Value)

BadOccupancy(c) ==
    c.Type = "occupancy" /\ c.Value \notin {S_true, S_false}

Unsupported(c) == c.Type \notin {"temperature", "humidity", "occupancy"}

ExpectedHold(t, e) ==
    LET on == t.Settings.HvacMode # "off" /\ e.Running /\ e.Type = "hold" IN
    (IF on /\ ~e.IsCoolOff /\ t.Settings.HvacMode # "heat"
     THEN <<Sample("hold_temperature", e.CoolHoldTemp, 10,
                   <<t.Identifier, t.Name, "cool">>)>>
     ELSE <<>>)
    \o
    (IF on /\ ~e.IsHeatOff /\ t.Settings.HvacMode # "cool"
     THEN <<Sample("hold_temperature", e.HeatHoldTemp, 10,
                   <<t.Identifier, t.Name, "heat">>)>>
     ELSE <<>>)

ExpectedHolds(t) ==
    Flatten([e \in DOMAIN t.Events |-> ExpectedHold(t, t.Events[e])])

ExpectedRuntime(t) ==
    IF t.Runtime.Connected
    THEN << Sample("actual_temperature", t.Runtime.ActualTemperature, 10,
                   <<t.Identifier, t.Name>>),
            Sample("target_temperature_max", t.Runtime.DesiredCool, 10,
                   <<t.Identifier, t.Name>>),
            Sample("target_temperature_min", t.Runtime.DesiredHeat, 10,
                   <<t.Identifier, t.Name>>),
            Sample("current_hvac_mode", 0, 1,
                   <<t.Identifier, t.Name, t.Settings.HvacMode>>) >>
         \o ExpectedHolds(t)
    ELSE <<>>

ExpectedCapability(t, s, c) ==
    LET l == <<t.Identifier, t.Name, s.ID, s.Name, s.Type>> IN
    CASE c.Type = "temperature" /\ Numeric(c.Value) ->
            <<Sample("temperature", NumeratorOf(c.Value),
                     10 * DenominatorOf(c.Value), l)>>
      [] c.Type = "humidity" /\ Numeric(c.Value) ->
            <<Sample("humidity", NumeratorOf(c.Value), DenominatorOf(c.Value), l)>>
      [] c.Type = "occupancy" /\ c.Value = S_true ->
            <<Sample("occupancy", 1, 1, l)>>
      [] c.Type = "occupancy" /\ c.Value = S_false ->
            <<Sample("occupancy", 0, 1, l)>>
      [] OTHER -> <<>>

ExpectedSensor(t, s) ==
    <<Sample("in_use", IF s.InUse THEN 1 ELSE 0, 1,
             <<t.Identifier, t.Name, s.ID, s.Name, s.Type>>)>>
    \o Flatten([c \in DOMAIN s.Capability |->
                  ExpectedCapability(t, s, s.Capability[c])])

ExpectedSensors(t) ==
    Flatten([q \in DOMAIN t.RemoteSensors |-> ExpectedSensor(t, t.RemoteSensors[q])])

ExpectedDevices(ts) ==
    Flatten([p \in DOMAIN ts |-> ExpectedRuntime(ts[p]) \o ExpectedSensors(ts[p])])

ExpectedEquipment(ss) ==
    Flatten([p \in DOMAIN ss |->
        IF ss[p].Connected
        THEN << Sample("hvac_in_operation", IF ss[p].CompCool1 THEN 1 ELSE 0, 1,
                       <<ss[p].Identifier, ss[p].Name, "CompCool1">>),
                Sample("hvac_in_operation", IF ss[p].AuxHeat1 THEN 1 ELSE 0, 1,
                       <<ss[p].Identifier, ss[p].Name, "AuxHeat1">>),
                Sample("hvac_in_operation", IF ss[p].Fan THEN 1 ELSE 0, 1,
                       <<ss[p].Identifier, ss[p].Name, "Fan">>) >>
        ELSE <<>>])

\* What a finished scrape sends, given its two fetch results.
ExpectedScrape(ts, ss) ==
    <<Sample("fetch_time", elapsed.num, elapsed.den, <<>>)>>
    \o (IF PrimaryErr THEN <<>>
        ELSE ExpectedDevices(ts)
             \o (IF SecondaryErr THEN <<>> ELSE ExpectedEquipment(ss)))

\* Every capability of every sensor of every thermostat, in order.
AllCapabilities(ts) ==
    Flatten([p \in DOMAIN ts |->
        Flatten([q \in DOMAIN ts[p].RemoteSensors |->
                    ts[p].RemoteSensors[q].Capability])])

HowMany(ts, Which(_)) == Len(SelectSeq(AllCapabilities(ts), Which))

\* The thermostats without their malformed temperature and humidity values.
WithoutMalformed(ts) ==
    [p \in DOMAIN ts |->
        [ts[p] EXCEPT !.RemoteSensors =
            LET ss == ts[p].RemoteSensors IN
            [q \in DOMAIN ss |->
                [ss[q] EXCEPT !.Capability =
                    SelectSeq(ss[q].Capability, LAMBDA c : ~Malformed(c))]]]]

(***************************************************************************)
(* C1.  When the primary fetch GetThermostats returns an error, the scrape *)
(* sends exactly one sample, the fetch-latency sample, no thermostat,      *)
(* sensor or equipment sample, and never issues GetThermostatSummary.      *)
(***************************************************************************)
C1_PrimaryFailureOnlyLatency ==
    PrimaryErr =>
        /\ Len(calls) = 1
        /\ Len(ch) <= 1
        /\ Of(RuntimeDescs \cup SensorDescs \cup {"hvac_in_operation"}) = <<>>
        /\ pc = "done" => Len(ch) = 1 /\ ch[1].desc = "fetch_time"

\* A scrape that ended on a failed primary fetch, the account holding a
\* connected thermostat with sensors and a connected equipment entry.
C1_Witness ==
    /\ pc = "done"
    /\ PrimaryErr
    /\ \E p \in DOMAIN thermostats :
          thermostats[p].Runtime.Connected /\ thermostats[p].RemoteSensors # <<>>
    /\ \E p \in DOMAIN equipment : equipment[p].Connected

(***************************************************************************)
(* C2.  When the primary fetch succeeds and the secondary fetch            *)
(* GetThermostatSummary fails, every thermostat and sensor sample of the   *)
(* primary result was sent before the secondary fetch and is still in ch   *)
(* when the scrape ends, and no hvac-in-operation sample is sent.          *)
(***************************************************************************)
C2_SecondaryFailureKeepsSamples ==
    (pc = "done" /\ PrimarySucceeded /\ SecondaryErr) =>
        /\ Of({"hvac_in_operation"}) = <<>>
        /\ calls[2].sent = Len(ch)
        /\ SameSamples(Tail(ch), ExpectedDevices(tt))

C2_Witness ==
    /\ pc = "done"
    /\ PrimarySucceeded
    /\ SecondaryErr
    /\ Len(ch) > 1
    /\ \E p \in DOMAIN equipment : equipment[p].Connected

(***************************************************************************)
(* C5.  Every scrape sends exactly one fetch-latency sample, whatever the  *)
(* two fetches do; it is sent after the primary fetch returned and before  *)
(* any other sample.                                                       *)
(***************************************************************************)
C5_OneLatencySampleFirst ==
    /\ Len(Of({"fetch_time"})) <= 1
    /\ ch # <<>> =>
          /\ ch[1].desc = "fetch_time"
          /\ calls # <<>>
          /\ calls[1].op = "GetThermostats"
          /\ calls[1].sent = 0
    /\ pc \notin {"idle", "fetchTime"} => Len(Of({"fetch_time"})) = 1

\* Finished scrapes of each kind: primary failed, secondary failed, both fine.
C5_Witness ==
    /\ pc = "done"
    /\ BothSucceeded
    /\ Len(ch) > 4
    /\ Len(Of({"hvac_in_operation"})) > 0

(***************************************************************************)
(* C10.  Within a scrape GetThermostats is called exactly once and         *)
(* GetThermostatSummary at most once, never again after a failure; the     *)
(* secondary fetch comes only after a successful primary fetch and after   *)
(* every thermostat and sensor sample, so hvac-in-operation samples follow *)
(* all of them; what a scrape sends is determined by its two fetch         *)
(* results alone.                                                          *)
(***************************************************************************)
C10_SequentialFetchesNoRetry ==
    /\ Len(calls) <= 2
    /\ pc # "idle" => calls # <<>> /\ calls[1].op = "GetThermostats"
    /\ Len(calls) = 2 =>
          /\ calls[2].op = "GetThermostatSummary"
          /\ ~calls[1].failed
          /\ calls[2].sent <= Len(ch)
          /\ SameSamples(SubSeq(ch, 2, calls[2].sent), ExpectedDevices(tt))
          /\ \A p \in DOMAIN ch :
                (ch[p].desc = "hvac_in_operation") <=> (p > calls[2].sent)
    /\ Len(calls) < 2 => Of({"hvac_in_operation"}) = <<>>
    /\ pc = "done" =>
          /\ Len(calls) = 1 <=> calls[1].failed
          /\ SameSamples(ch, ExpectedScrape(tt, statSummary))

\* A finished scrape whose secondary fetch failed after samples were sent.
C10_Witness ==
    /\ pc = "done"
    /\ SecondaryErr
    /\ Len(Of(SensorDescs)) > 1
    /\ Len(Of(RuntimeDescs)) > 4

(***************************************************************************)
(* C3.  As claimed: a thermostat of a successful primary result whose      *)
(* Runtime.Connected is false contributes no runtime sample and no sensor  *)
(* sample carrying its identifier.                                         *)
(***************************************************************************)
C3_DisconnectedContributesNothing ==
    (pc = "done" /\ PrimarySucceeded) =>
        \A p \in DOMAIN tt :
            ~tt[p].Runtime.Connected =>
                OfThermostat(RuntimeDescs \cup SensorDescs, tt[p].Identifier) = <<>>

(***************************************************************************)
(* C3, amended.  A disconnected thermostat contributes no runtime sample   *)
(* (actual temperature, target min/max, hvac mode, hold temperature); its  *)
(* remote sensors are walked all the same, and their in-use, temperature,  *)
(* humidity and occupancy samples are sent as for a connected thermostat.  *)
(***************************************************************************)
C3_DisconnectedNoRuntimeSamples ==
    (pc = "done" /\ PrimarySucceeded) =>
        \A p \in DOMAIN tt :
            ~tt[p].Runtime.Connected =>
                /\ OfThermostat(RuntimeDescs, tt[p].Identifier) = <<>>
                /\ SameSamples(OfThermostat(SensorDescs, tt[p].Identifier),
                               ExpectedSensors(tt[p]))

\* A finished scrape over a disconnected thermostat that has a running hold
\* event, a mode other than off and a sensor with capabilities.
C3_Witness ==
    /\ pc = "done"
    /\ PrimarySucceeded
    /\ \E p \in DOMAIN tt :
          /\ ~tt[p].Runtime.Connected
          /\ tt[p].Settings.HvacMode # "off"
          /\ tt[p].Events # <<>>
          /\ \E q \in DOMAIN tt[p].RemoteSensors :
                tt[p].RemoteSensors[q].Capability # <<>>

(***************************************************************************)
(* C4.  As claimed: a connected thermostat has hold-temperature samples    *)
(* if and only if its mode is not "off" and one of its events is a         *)
(* running hold; each such event yields a "cool" sample iff IsCoolOff is   *)
(* false and the mode is not "heat", and a "heat" sample iff IsHeatOff is  *)
(* false and the mode is not "cool", with no deduplication.                *)
(***************************************************************************)
RunningHolds(t) ==
    IF t.Settings.HvacMode = "off" THEN <<>>
    ELSE SelectSeq(t.Events, LAMBDA e : e.Running /\ e.Type = "hold")

HoldsLabelled(t, label) ==
    SelectSeq(OfThermostat({"hold_temperature"}, t.Identifier),
              LAMBDA x : x.labels = <<t.Identifier, t.Name, label>>)

PerEventHolds(t) ==
    /\ Len(HoldsLabelled(t, "cool")) =
          Len(SelectSeq(RunningHolds(t),
                        LAMBDA e : ~e.IsCoolOff /\ t.Settings.HvacMode # "heat"))
    /\ Len(HoldsLabelled(t, "heat")) =
          Len(SelectSeq(RunningHolds(t),
                        LAMBDA e : ~e.IsHeatOff /\ t.Settings.HvacMode # "cool"))
    /\ SameSamples(OfThermostat({"hold_temperature"}, t.Identifier),
                   ExpectedHolds(t))

C4_HoldSamplesIffRunningHold ==
    (pc = "done" /\ PrimarySucceeded) =>
        \A p \in DOMAIN tt :
            tt[p].Runtime.Connected =>
                /\ OfThermostat({"hold_temperature"}, tt[p].Identifier) # <<>>
                      <=> RunningHolds(tt[p]) # <<>>
                /\ PerEventHolds(tt[p])

(***************************************************************************)
(* C4, amended.  A connected thermostat has hold-temperature samples only  *)
(* if its mode is not "off" and one of its events is a running hold (such  *)
(* an event may yield none: both setpoints off, or the only setpoint left  *)
(* excluded by the mode); each such event yields a "cool" sample           *)
(* (CoolHoldTemp/10) iff IsCoolOff is false and the mode is not "heat",    *)
(* and a "heat" sample (HeatHoldTemp/10) iff IsHeatOff is false and the    *)
(* mode is not "cool", cool before heat, event by event, with no           *)
(* deduplication.                                                          *)
(***************************************************************************)
C4_HoldSamplesPerRunningHold ==
    (pc = "done" /\ PrimarySucceeded) =>
        \A p \in DOMAIN tt :
            tt[p].Runtime.Connected =>
                /\ OfThermostat({"hold_temperature"}, tt[p].Identifier) # <<>>
                      => RunningHolds(tt[p]) # <<>>
                /\ PerEventHolds(tt[p])

\* A finished scrape over a connected thermostat in mode "auto" with two
\* running holds that both yield a cool and a heat sample.
C4_Witness ==
    /\ pc = "done"
    /\ PrimarySucceeded
    /\ \E p \in DOMAIN tt :
          /\ tt[p].Runtime.Connected
          /\ tt[p].Settings.HvacMode = "auto"
          /\ Len(RunningHolds(tt[p])) = 2
          /\ Len(HoldsLabelled(tt[p], "cool")) = 2
          /\ Len(HoldsLabelled(tt[p], "heat")) = 2

(***************************************************************************)
(* C6.  For every connected thermostat of a successful primary result the  *)
(* scrape sends exactly one actual-temperature sample valued               *)
(* ActualTemperature/10, one target-temperature-max sample valued          *)
(* DesiredCool/10 and one target-temperature-min sample valued             *)
(* DesiredHeat/10, each labelled (id, name), and exactly one               *)
(* current-hvac-mode sample valued 0 whose third label is HvacMode.        *)
(***************************************************************************)
ExactlyOne(desc, t, num, den, labels) ==
    LET xs == OfThermostat({desc}, t.Identifier) IN
    /\ Len(xs) = 1
    /\ xs[1].labels = labels
    /\ xs[1].value.num * den = num * xs[1].value.den

C6_RuntimeSamplesTenths ==
    (pc = "done" /\ PrimarySucceeded) =>
        \A p \in DOMAIN tt :
            LET t == tt[p] IN
            t.Runtime.Connected =>
                /\ ExactlyOne("actual_temperature", t,
                              t.Runtime.ActualTemperature, 10,
                              <<t.Identifier, t.Name>>)
                /\ ExactlyOne("target_temperature_max", t,
                              t.Runtime.DesiredCool, 10, <<t.Identifier, t.Name>>)
                /\ ExactlyOne("target_temperature_min", t,
                              t.Runtime.DesiredHeat, 10, <<t.Identifier, t.Name>>)
                /\ ExactlyOne("current_hvac_mode", t, 0, 1,
                              <<t.Identifier, t.Name, t.Settings.HvacMode>>)

\* A finished scrape over two connected thermostats.
C6_Witness ==
    /\ pc = "done"
    /\ PrimarySucceeded
    /\ Len(tt) = 2
    /\ \A p \in DOMAIN tt : tt[p].Runtime.Connected

(***************************************************************************)
(* C7.  Every processed capability of type "occupancy" with value "true"   *)
(* yields one occupancy sample valued 1, with value "false" one valued 0,  *)
(* and with any other value no sample and one logged error; a capability   *)
(* of a type other than temperature, humidity and occupancy yields no      *)
(* sample and no error, only an informational log entry.                   *)
(***************************************************************************)
SensorLabels(t, s) == <<t.Identifier, t.Name, s.ID, s.Name, s.Type>>

OfSensor(D, t, s) ==
    SelectSeq(ch, LAMBDA x : x.desc \in D /\ x.labels = SensorLabels(t, s))

OccupancyValues(s) ==
    LET known == SelectSeq(s.Capability,
                           LAMBDA c : c.Type = "occupancy"
                                      /\ c.Value \in {S_true, S_false})
    IN  [c \in DOMAIN known |-> IF known[c].Value = S_true THEN 1 ELSE 0]

C7_OccupancyDispatch ==
    (pc = "done" /\ PrimarySucceeded) =>
        /\ \A p \in DOMAIN tt : \A q \in DOMAIN tt[p].RemoteSensors :
              LET t == tt[p]
                  s == t.RemoteSensors[q]
                  sent == OfSensor({"occupancy"}, t, s)
              IN  /\ Len(sent) = Len(OccupancyValues(s))
                  /\ \A c \in DOMAIN sent :
                        /\ sent[c].value.num = OccupancyValues(s)[c] * sent[c].value.den
                        /\ sent[c].value.den # 0
                  /\ Len(OfSensor(SensorDescs, t, s)) =
                        1 + Len(SelectSeq(s.Capability,
                                          LAMBDA c : ~Malformed(c) /\ ~BadOccupancy(c)
                                                     /\ ~Unsupported(c)))
        /\ CountLogs("error", "unknown sensor occupancy value") =
              HowMany(tt, BadOccupancy)
        /\ CountLogs("info", "ignoring sensor capability") = HowMany(tt, Unsupported)
        /\ Cardinality({p \in DOMAIN logs : logs[p].level = "error"}) =
              HowMany(tt, BadOccupancy) + HowMany(tt, Malformed)
              + (IF SecondaryErr THEN 1 ELSE 0)

\* A finished scrape over two thermostats: a sensor of the first lists an
\* occupancy value other than "true" and "false" and then an unsupported
\* type, a sensor of the second lists occupancy "true".
C7_Witness ==
    /\ pc = "done"
    /\ PrimarySucceeded
    /\ Len(tt) = 2
    /\ LET a == tt[1].RemoteSensors[1].Capability
           b == tt[2].RemoteSensors[1].Capability
       IN  /\ a[1].Type = "occupancy" /\ a[1].Value \notin {S_true, S_false}
           /\ a[2].Type = "co2"
           /\ b[2].Type = "occupancy" /\ b[2].Value = S_true
    /\ Len(OfThermostat({"occupancy"}, tt[1].Identifier)) = 0
    /\ Len(OfThermostat({"occupancy"}, tt[2].Identifier)) = 1
    /\ CountLogs("error", "unknown sensor occupancy value") = 1
    /\ CountLogs("info", "ignoring sensor capability") = 1

(***************************************************************************)
(* C8.  A temperature or humidity value that fails numeric parsing costs   *)
(* exactly that one sample and logs one error; the rest of the scrape      *)
(* (the other capabilities of the sensor, the later sensors and            *)
(* thermostats, the secondary fetch and its equipment samples) goes as if  *)
(* the malformed capability were absent.  A parsable temperature value v   *)
(* yields v/10, a parsable humidity value v yields v.                      *)
(***************************************************************************)
C8_ParseFailureSkipsOneSample ==
    (pc = "done" /\ PrimarySucceeded) =>
        /\ Len(calls) = 2
        /\ SameSamples(ch, ExpectedScrape(WithoutMalformed(tt), statSummary))
        /\ CountLogs("error", "ParseFloat") = HowMany(tt, Malformed)
        /\ \A p \in DOMAIN tt : \A q \in DOMAIN tt[p].RemoteSensors :
              LET t == tt[p]
                  s == t.RemoteSensors[q]
                  numeric(type) ==
                      SelectSeq(s.Capability,
                                LAMBDA c : c.Type = type /\ Numeric(c.Value))
                  temps == OfSensor({"temperature"}, t, s)
                  hums  == OfSensor({"humidity"}, t, s)
              IN  /\ Len(temps) = Len(numeric("temperature"))
                  /\ Len(hums) = Len(numeric("humidity"))
                  /\ \A c \in DOMAIN temps :
                        temps[c].value.num * 10 * DenominatorOf(numeric("temperature")[c].Value)
                          = NumeratorOf(numeric("temperature")[c].Value) * temps[c].value.den
                  /\ \A c \in DOMAIN hums :
                        hums[c].value.num * DenominatorOf(numeric("humidity")[c].Value)
                          = NumeratorOf(numeric("humidity")[c].Value) * hums[c].value.den

\* A finished scrape, both fetches fine, over a sensor whose first
\* capability is a malformed humidity and whose second parses, followed by
\* another thermostat and by equipment samples.
C8_Witness ==
    /\ pc = "done"
    /\ BothSucceeded
    /\ Len(tt) = 2
    /\ LET caps == tt[1].RemoteSensors[1].Capability IN
          /\ caps[1].Type = "humidity" /\ ~Numeric(caps[1].Value)
          /\ caps[2].Type = "temperature" /\ Numeric(caps[2].Value)
    /\ Len(OfThermostat({"temperature"}, tt[1].Identifier)) = 1
    /\ Len(OfThermostat(SensorDescs, tt[2].Identifier)) > 1
    /\ Len(Of({"hvac_in_operation"})) = 3

(***************************************************************************)
(* C9.  When both fetches succeed, every equipment summary entry with      *)
(* Connected = true yields exactly three hvac-in-operation samples, for    *)
(* CompCool1, AuxHeat1 and Fan in that order, valued 1 if the field of     *)
(* that name is true and 0 otherwise, labelled (id, name, attribute); a    *)
(* disconnected entry yields none and no other attribute is ever sent.     *)
(***************************************************************************)
C9_EquipmentSamples ==
    /\ \A p \in DOMAIN ch :
          ch[p].desc = "hvac_in_operation" =>
              ch[p].labels[3] \in {"CompCool1", "AuxHeat1", "Fan"}
    /\ (pc = "done" /\ BothSucceeded) =>
          LET sent == Of({"hvac_in_operation"})
              conn == SelectSeq(statSummary, LAMBDA e : e.Connected)
              attr == <<"CompCool1", "AuxHeat1", "Fan">>
          IN  /\ Len(sent) = 3 * Len(conn)
              /\ \A c \in DOMAIN conn : \A a \in 1..3 :
                    LET x == sent[3 * (c - 1) + a] IN
                    /\ x.labels = <<conn[c].Identifier, conn[c].Name, attr[a]>>
                    /\ x.value.den # 0
                    /\ x.value.num = (IF conn[c][attr[a]] THEN 1 ELSE 0) * x.value.den
              /\ SameSamples(sent, ExpectedEquipment(statSummary))

\* A finished scrape over a disconnected entry followed by a connected one
\* whose three tracked attributes are not all equal.
C9_Witness ==
    /\ pc = "done"
    /\ BothSucceeded
    /\ Len(statSummary) = 2
    /\ ~statSummary[1].Connected
    /\ statSummary[2].Connected
    /\ statSummary[2].CompCool1 /\ ~statSummary[2].AuxHeat1 /\ statSummary[2].Fan
    /\ Len(Of({"hvac_in_operation"})) = 3

=============================================================================
